---- MODULE Spec2Model ----
(***************************************************************************)
(* Model of src/remove_unregistered.rs: the loop of main over the          *)
(* unregistered torrents, delete, and delete_from_filesystem, run against  *)
(* a small filesystem with directories, regular files and symbolic links.  *)
(*                                                                         *)
(* A path is the sequence of its components, as std::path::Path iterates   *)
(* them: an absolute path starts with the root component "/".              *)
(***************************************************************************)
EXTENDS Integers, Sequences, FiniteSets, TLC

\* Bounds of the model.
MaxTorrents == 2      \* candidates main iterates over in one run
MaxFiles == 2         \* entries of one torrent's file list
MaxLinks == 2         \* symbolic links one path resolution may follow

----------------------------------------------------------------------------
\* Paths

RootDir == "/"
ParentDir == ".."

WATCHED == <<"/", "w", "t">>
SESSION == <<"/", "s", "t">>
SHOW == <<"/", "d", "show">>
ESC == <<"/", "d", "esc">>
TGT == <<"/", "d", "tgt">>

\* Every path the model's filesystem can hold an entry at.
Nodes ==
    { <<"/">>, <<"/", "d">>, <<"/", "w">>, <<"/", "s">>, WATCHED, SESSION,
      SHOW, SHOW \o <<"h">>, SHOW \o <<"l">>, SHOW \o <<"a">>,
      SHOW \o <<"a", "f">>, SHOW \o <<"a", "b">>, SHOW \o <<"a", "b", "k">>,
      ESC, TGT, TGT \o <<"h">> }

\* Bytes of one component's name.
NameLen(c) == IF c \in {"show"} THEN 4 ELSE IF c \in {"esc", "tgt"} THEN 3 ELSE IF c = ParentDir THEN 2 ELSE 1

RECURSIVE SumLen(_)
SumLen(p) == IF p = <<>> THEN 0 ELSE NameLen(Head(p)) + SumLen(Tail(p))

\* Path::is_absolute / Path::is_relative
IsAbsolute(p) == p # <<>> /\ p[1] = RootDir
IsRelative(p) == ~IsAbsolute(p)

\* as_os_str().len(): the bytes of the path written with "/" separators.
StrLen(p) ==
    IF p = <<>> THEN 0
    ELSE IF IsAbsolute(p) THEN (IF Len(p) = 1 THEN 1 ELSE SumLen(Tail(p)) + (Len(p) - 1))
    ELSE SumLen(p) + (Len(p) - 1)

\* Path::join: an absolute argument replaces the base.
Join(base, p) == IF IsAbsolute(p) THEN p ELSE base \o p

\* Path::starts_with: base is a prefix of p, component by component.
StartsWith(p, base) ==
    /\ Len(base) <= Len(p)
    /\ \A i \in 1..Len(base) : p[i] = base[i]

\* Path::ends_with: child is a suffix of p, compared from the last component back.
EndsWith(p, child) ==
    /\ Len(child) <= Len(p)
    /\ \A i \in 0..(Len(child) - 1) : p[Len(p) - i] = child[Len(child) - i]

\* Path::parent for the paths the model walks ("/" has none and stays "/").
Parent(p) == IF Len(p) <= 1 THEN p ELSE SubSeq(p, 1, Len(p) - 1)

\* path.ancestors().skip(1).filter(|p| !p.as_os_str().is_empty())
Ancestors(p) == { SubSeq(p, 1, n) : n \in 1..(Len(p) - 1) }

----------------------------------------------------------------------------
\* The filesystem

None == [kind |-> "none", to |-> <<>>]
File == [kind |-> "file", to |-> <<>>]
Dir == [kind |-> "dir", to |-> <<>>]
Link(target) == [kind |-> "link", to |-> target]

Fail == <<>>

\* realpath(3): follow every symbolic link, apply "..", and fail when a
\* component is missing or a non-directory is walked through.
RECURSIVE Walk(_, _, _, _)
Walk(f, cur, rest, fuel) ==
    IF rest = <<>> THEN cur
    ELSE LET c == Head(rest)
             n == Append(cur, c)
         IN  IF c = RootDir THEN Walk(f, <<RootDir>>, Tail(rest), fuel)
             ELSE IF c = ParentDir THEN Walk(f, Parent(cur), Tail(rest), fuel)
             ELSE IF n \notin Nodes \/ f[n].kind = "none" THEN Fail
             ELSE IF f[n].kind = "link"
                  THEN IF fuel = 0 THEN Fail
                       ELSE Walk(f, cur, f[n].to \o Tail(rest), fuel - 1)
             ELSE IF f[n].kind = "file" /\ Tail(rest) # <<>> THEN Fail
             ELSE Walk(f, n, Tail(rest), fuel)

\* Path::canonicalize of an absolute path; Fail stands for the Err it returns.
Canonicalize(f, p) == IF IsAbsolute(p) THEN Walk(f, <<>>, p, MaxLinks) ELSE Fail

\* Path::exists: stat(2), which follows links.
Exists(f, p) == Canonicalize(f, p) # Fail

\* The entry a path names without following a link in its last component.
Entry(f, p) ==
    LET par == Canonicalize(f, Parent(p))
    IN  IF Len(p) <= 1 THEN p
        ELSE IF par = Fail THEN Fail
        ELSE Append(par, p[Len(p)])

Present(f, n) == n # Fail /\ n \in Nodes /\ f[n].kind # "none"

Children(f, n) == { m \in Nodes : Len(m) = Len(n) + 1 /\ StartsWith(m, n) /\ f[m].kind # "none" }

\* SymlinkMetadata with stat(2) in place of lstat(2): the kind of what the
\* path resolves to, links followed.
StatMetadata(f, p) ==
    LET n == Canonicalize(f, p)
    IN  IF Present(f, n) THEN f[n].kind ELSE "NotFound"

\* std::fs::symlink_metadata: lstat(2), the kind of the entry itself.
SymlinkMetadata(f, p) ==
    LET n == Entry(f, p)
    IN  IF Present(f, n) THEN f[n].kind ELSE "NotFound"

\* std::fs::remove_file: unlink(2).
RemoveFileRes(f, denied, p) ==
    LET n == Entry(f, p)
    IN  IF ~Present(f, n) THEN "NotFound"
        ELSE IF f[n].kind = "dir" THEN "IsADirectory"
        ELSE IF n \in denied THEN "PermissionDenied"
        ELSE "Ok"

\* std::fs::remove_dir: rmdir(2), which removes only an empty directory.
RemoveDirRes(f, denied, p) ==
    LET n == Entry(f, p)
    IN  IF ~Present(f, n) THEN "NotFound"
        ELSE IF f[n].kind # "dir" THEN "NotADirectory"
        ELSE IF Children(f, n) # {} THEN "DirectoryNotEmpty"
        ELSE IF n \in denied THEN "PermissionDenied"
        ELSE "Ok"

\* The filesystem after a successful unlink or rmdir of p.
Removed(f, p) == [f EXCEPT ![Entry(f, p)] = None]

----------------------------------------------------------------------------
\* Inputs: what the daemon reports for a torrent

\* d.base_path after tilde expansion: the usual root, "/", and a relative path.
Roots == { SHOW, <<RootDir>>, <<"d", "show">> }

\* f.path of one file of a torrent.
Entries ==
    { <<"h">>, <<"a", "f">>, <<"a", "b", "k">>, <<"l">>, <<ParentDir, "esc">>,
      <<"show">>, <<"d", "show">>, ESC }

\* A torrent's file list: distinct entries, in the daemon's order.
FileLists ==
    UNION { { s \in [1..n -> Entries] : \A i, j \in 1..n : i # j => s[i] # s[j] } : n \in 0..MaxFiles }

\* The filesystems a run can start from.
BaseTree ==
    [n \in Nodes |->
        IF n \in { <<"/">>, <<"/", "d">>, <<"/", "w">>, <<"/", "s">>, TGT } THEN Dir
        ELSE IF n \in { ESC, TGT \o <<"h">> } THEN File
        ELSE None]

ShowTrees ==
    { [n \in { SHOW \o <<"h">>, SHOW \o <<"l">>, SHOW \o <<"a">>, SHOW \o <<"a", "f">>,
               SHOW \o <<"a", "b">>, SHOW \o <<"a", "b", "k">> } |->
          IF n = SHOW \o <<"h">> THEN h
          ELSE IF n = SHOW \o <<"l">> THEN l
          ELSE IF n = SHOW \o <<"a">> THEN Dir
          ELSE IF n = SHOW \o <<"a", "f">> THEN af
          ELSE IF n = SHOW \o <<"a", "b">> THEN b
          ELSE IF b = Dir THEN File ELSE None] :
        h \in {File, None}, af \in {File, None}, b \in {Dir, None},
        l \in {None, Link(ESC), Link(SHOW \o <<"h">>)} }

Overlay(f, g) == [n \in Nodes |-> IF n \in DOMAIN g THEN g[n] ELSE f[n]]

ContentTrees ==
    { Overlay(BaseTree, [n \in {SHOW} |-> Dir] @@ t) : t \in ShowTrees }
    \cup { Overlay(BaseTree, [n \in {SHOW} |-> File]),
           Overlay(BaseTree, [n \in {SHOW} |-> Link(TGT)]),
           BaseTree }

----------------------------------------------------------------------------
\* State

VARIABLES
    fs,         \* the filesystem: Nodes -> entry
    denied,     \* entries whose removal the kernel refuses (EACCES)
    pc,         \* where the program is
    remaining,  \* candidates main has not reached yet
    content,    \* delete_from_filesystem: content
    files,      \* delete_from_filesystem: files
    ctype,      \* delete_from_filesystem: content_type
    idx,        \* index of the next entry of files
    dirset,     \* directories, the HashSet
    dirvec,     \* directories, the sorted Vec still to be removed
    result,     \* how the removal of the current torrent ended
    fs0         \* the filesystem when the current torrent's removal began

vars == <<fs, denied, pc, remaining, content, files, ctype, idx, dirset, dirvec, result, fs0>>

Init ==
    /\ \E t \in ContentTrees, w \in {File, None}, s \in {File, None} :
          fs = [t EXCEPT ![WATCHED] = w, ![SESSION] = s]
    /\ denied \in SUBSET {WATCHED, SESSION}
    /\ \A n \in denied : fs[n].kind # "none"
    /\ pc = "main"
    /\ remaining = MaxTorrents
    /\ content = <<>>
    /\ files = <<>>
    /\ ctype = "none"
    /\ idx = 1
    /\ dirset = {}
    /\ dirvec = <<>>
    /\ result = "none"
    /\ fs0 = fs

\* The locals of delete_from_filesystem that a step leaves alone.
Locals == <<content, files, ctype, idx, dirset, dirvec>>

\* A panic unwinds out of main: the process ends.
Panic ==
    /\ pc' = "aborted"
    /\ result' = "Panic"

\* delete_from_filesystem returns r to delete.
Return(r) ==
    /\ pc' = "report"
    /\ result' = r

----------------------------------------------------------------------------
\* main

\* main, the loop's next unregistered torrent: delete reads its base path and
\* its file list from the daemon.
NextCandidate ==
    /\ pc = "main"
    /\ remaining > 0
    /\ remaining' = remaining - 1
    /\ \E root \in Roots, list \in FileLists :
          /\ content' = root
          /\ files' = list
    /\ pc' = "delete"
    /\ fs0' = fs
    /\ UNCHANGED <<fs, denied, ctype, idx, dirset, dirvec, result>>

\* main returns Ok(()) once the loop is over.
MainReturn ==
    /\ pc = "main"
    /\ remaining = 0
    /\ pc' = "exit"
    /\ UNCHANGED <<fs, denied, remaining, content, files, ctype, idx, dirset, dirvec, result, fs0>>

----------------------------------------------------------------------------
\* delete

\* assert_ne!(content_path, "/"); assert!(content_path.len() > 1);
RootBelt(root) == root # <<RootDir>> /\ StrLen(root) > 1

\* delete, up to the call of delete_from_filesystem.
DeleteChecks ==
    /\ pc = "delete"
    /\ IF RootBelt(content)
       THEN /\ pc' = "stat"
            /\ UNCHANGED result
       ELSE Panic
    /\ UNCHANGED <<fs, denied, remaining, Locals, fs0>>

\* delete, after delete_from_filesystem has returned: the error is printed
\* and squashed, and main sleeps and goes on to the next torrent.
Report ==
    /\ pc = "report"
    /\ pc' = "main"
    /\ result' = "none"
    /\ content' = <<>>
    /\ files' = <<>>
    /\ ctype' = "none"
    /\ idx' = 1
    /\ dirset' = {}
    /\ dirvec' = <<>>
    /\ fs0' = fs
    /\ UNCHANGED <<fs, denied, remaining>>

----------------------------------------------------------------------------
\* delete_from_filesystem

\* assert!(content.is_absolute()); symlink_metadata(content)?
Stat ==
    /\ pc = "stat"
    /\ IF ~IsAbsolute(content) THEN Panic /\ UNCHANGED ctype
       ELSE LET st == SymlinkMetadata(fs, content)
            IN  IF st = "NotFound"
                THEN Return("NotFound") /\ UNCHANGED ctype
                ELSE /\ ctype' = st
                     /\ pc' = "watched"
                     /\ UNCHANGED result
    /\ UNCHANGED <<fs, denied, remaining, content, files, idx, dirset, dirvec, fs0>>

\* RemoveIfExists with the error of remove_file dropped instead of returned.
RemoveIfExistsIgnoringError(p, next) ==
    /\ pc' = next
    /\ UNCHANGED result
    /\ fs' = IF Exists(fs, p) /\ RemoveFileRes(fs, denied, p) = "Ok" THEN Removed(fs, p) ELSE fs

\* RemoveIfExists with the exists() test inverted.
RemoveIfAbsent(p, next) ==
    IF ~Exists(fs, p)
    THEN LET r == RemoveFileRes(fs, denied, p)
         IN  /\ Return(r)
             /\ UNCHANGED fs
    ELSE /\ pc' = next
         /\ UNCHANGED <<fs, result>>

\* RemoveIfExists without the exists() test: remove_file(p)? on every path.
RemoveAlways(p, next) ==
    LET r == RemoveFileRes(fs, denied, p)
    IN  IF r = "Ok"
        THEN /\ fs' = Removed(fs, p)
             /\ pc' = next
             /\ UNCHANGED result
        ELSE /\ Return(r)
             /\ UNCHANGED fs

\* if p.exists() { std::fs::remove_file(p)?; }  and then go on at `next`.
RemoveIfExists(p, next) ==
    IF Exists(fs, p)
    THEN LET r == RemoveFileRes(fs, denied, p)
         IN  IF r = "Ok"
             THEN /\ fs' = Removed(fs, p)
                  /\ pc' = next
                  /\ UNCHANGED result
             ELSE /\ Return(r)
                  /\ UNCHANGED fs
    ELSE /\ pc' = next
         /\ UNCHANGED <<fs, result>>

RemoveWatched ==
    /\ pc = "watched"
    /\ RemoveIfExists(WATCHED, "session")
    /\ UNCHANGED <<denied, remaining, Locals, fs0>>

RemoveSession ==
    /\ pc = "session"
    /\ RemoveIfExists(SESSION, "classify")
    /\ UNCHANGED <<denied, remaining, Locals, fs0>>

\* return std::fs::remove_file(content);
RemoveContentEntry ==
    LET r == RemoveFileRes(fs, denied, content)
    IN  /\ Return(r)
        /\ fs' = IF r = "Ok" THEN Removed(fs, content) ELSE fs

\* SingleFileBelt without the length assertion.
SingleFileBeltAnyLength(root, list) == Len(list) >= 1 /\ EndsWith(root, list[1])

\* assert_eq!(files.len(), 1); assert!(content.ends_with(&files[0]));
SingleFileBelt(root, list) == Len(list) = 1 /\ EndsWith(root, list[1])

\* The branch on content_type: a symlink and a regular file are removed
\* here, a directory goes on to the loop over files.
Classify ==
    /\ pc = "classify"
    /\ IF ctype = "link" THEN RemoveContentEntry
       ELSE IF ctype = "file"
            THEN IF SingleFileBelt(content, files) THEN RemoveContentEntry
                 ELSE Panic /\ UNCHANGED fs
       ELSE /\ pc' = "files"
            /\ UNCHANGED <<fs, result>>
    /\ UNCHANGED <<denied, remaining, Locals, fs0>>

\* Contained without the seatbelt: every resolved path passes.
ContainedUnchecked(abspath, root) == TRUE

\* abspath.starts_with(content)
Contained(abspath, root) == StartsWith(abspath, root)

\* One turn of `for file in files`.
RemoveContentFile ==
    /\ pc = "files"
    /\ idx <= Len(files)
    /\ LET path == files[idx]
           abspath == Canonicalize(fs, Join(content, path))
       IN  IF ~IsRelative(path) \/ abspath = Fail \/ ~Contained(abspath, content)
           THEN Panic /\ UNCHANGED <<fs, idx, dirset>>
           ELSE LET r == RemoveFileRes(fs, denied, abspath)
                IN  IF r = "Ok"
                    THEN /\ fs' = Removed(fs, abspath)
                         /\ dirset' = dirset \cup Ancestors(path)
                         /\ idx' = idx + 1
                         /\ UNCHANGED <<pc, result>>
                    ELSE /\ Return(r)
                         /\ UNCHANGED <<fs, idx, dirset>>
    /\ UNCHANGED <<denied, remaining, content, files, ctype, dirvec, fs0>>

\* SortKey without the negation: shortest first.
SortKeyAscending(d) == StrLen(d)

\* sort_unstable_by_key(|d| -(d.as_os_str().len() as isize))
SortKey(d) == 0 - StrLen(d)

\* The orders a sort by key can leave the elements of set in.
SortedByKey(set) ==
    { v \in [1..Cardinality(set) -> set] :
        /\ \A i, j \in 1..Cardinality(set) : i # j => v[i] # v[j]
        /\ \A i, j \in 1..Cardinality(set) : i < j => SortKey(v[i]) <= SortKey(v[j]) }

\* directories.into_iter().collect() and the sort.
SortDirectories ==
    /\ pc = "files"
    /\ idx > Len(files)
    /\ dirvec' \in SortedByKey(dirset)
    /\ pc' = "dirs"
    /\ UNCHANGED <<fs, denied, remaining, content, files, ctype, idx, dirset, result, fs0>>

\* One turn of `for dir in directories`.
RemoveImpliedDir ==
    /\ pc = "dirs"
    /\ dirvec # <<>>
    /\ LET dir == Head(dirvec)
           abspath == Canonicalize(fs, Join(content, dir))
       IN  IF abspath = Fail \/ ~Contained(abspath, content)
           THEN Panic /\ UNCHANGED <<fs, dirvec>>
           ELSE LET r == RemoveDirRes(fs, denied, abspath)
                IN  IF r = "Ok"
                    THEN /\ fs' = Removed(fs, abspath)
                         /\ dirvec' = Tail(dirvec)
                         /\ UNCHANGED <<pc, result>>
                    ELSE /\ Return(r)
                         /\ UNCHANGED <<fs, dirvec>>
    /\ UNCHANGED <<denied, remaining, content, files, ctype, idx, dirset, fs0>>

\* std::fs::remove_dir(content)?; Ok(())
PruneRoot ==
    /\ pc = "dirs"
    /\ dirvec = <<>>
    /\ LET r == RemoveDirRes(fs, denied, content)
       IN  /\ Return(r)
           /\ fs' = IF r = "Ok" THEN Removed(fs, content) ELSE fs
    /\ UNCHANGED <<denied, remaining, Locals, fs0>>

----------------------------------------------------------------------------

Next ==
    \/ NextCandidate
    \/ MainReturn
    \/ DeleteChecks
    \/ Report
    \/ Stat
    \/ RemoveWatched
    \/ RemoveSession
    \/ Classify
    \/ RemoveContentFile
    \/ SortDirectories
    \/ RemoveImpliedDir
    \/ PruneRoot

Spec == Init /\ [][Next]_vars

----------------------------------------------------------------------------
\* Vocabulary of the properties

\* The removal of the current torrent has ended: returned, or panicked.
Ended == pc \in {"report", "aborted"}

Descriptors == {WATCHED, SESSION}

\* What the content root was when the removal began.
RootKind == IF content \in Nodes THEN fs0[content].kind ELSE "none"

\* The entries at or under the content root.
UnderRoot == { n \in Nodes : StartsWith(n, content) }

\* The entries this removal has deleted so far.
Deleted == { n \in Nodes : fs0[n].kind # "none" /\ fs[n].kind = "none" }

\* A descriptor that was present when the removal began and cannot be removed.
RefusedDescriptor == \E d \in denied : fs0[d].kind # "none"

\* The declared path p, joined onto the root and canonicalized in f, leaves the root.
Escapes(f, root, p) ==
    LET c == Canonicalize(f, Join(root, p))
    IN  c # Fail /\ ~StartsWith(c, root)

EscapingIndexes == { i \in 1..Len(files) : Escapes(fs0, content, files[i]) }

FirstEscaping == CHOOSE i \in EscapingIndexes : \A j \in EscapingIndexes : i <= j

\* The paths the file list declares, and the directories they imply.
DeclaredFiles == { Join(content, files[i]) : i \in 1..Len(files) }
ImpliedDirs == UNION { { Join(content, d) : d \in Ancestors(files[i]) } : i \in 1..Len(files) }

----------------------------------------------------------------------------
\* C1 (as claimed): when the content root is a directory and some declared
\* path, joined onto it and canonicalized, leaves the root, the removal fails
\* and deletes nothing at or under the root: every declared file, those listed
\* before the escaping path included, every directory and the root remain.
C1_DeletesNothing ==
    (Ended /\ RootKind = "dir" /\ EscapingIndexes # {})
        => /\ result # "Ok"
           /\ \A n \in UnderRoot : fs[n] = fs0[n]

\* C1 (amended): when the content root is a directory and some declared path
\* leaves the root, the removal fails; it deletes no directory, nothing
\* outside the root but the descriptors, and nothing from the first escaping
\* path on: the only content deleted is declared files listed before that
\* path, each resolved inside the root.
C1_Containment ==
    (Ended /\ RootKind = "dir" /\ EscapingIndexes # {})
        => /\ result # "Ok"
           /\ \A n \in Deleted :
                \/ n \in Descriptors
                \/ /\ fs0[n].kind = "file"
                   /\ StartsWith(n, content)
                   /\ \E j \in 1..(FirstEscaping - 1) :
                         n = Canonicalize(fs0, Join(content, files[j]))

\* C1 witness: the removal panicked at an escaping path listed second, after
\* deleting the file listed first.
C1_Witness ==
    /\ pc = "aborted"
    /\ RootKind = "dir"
    /\ EscapingIndexes = {2}
    /\ Deleted \ Descriptors = { Join(content, files[1]) }
    /\ fs[ESC] = File

----------------------------------------------------------------------------
\* C2 (as claimed): a removal run on a tree that an earlier removal has
\* already removed, wholly or in part, never ends with an error for an entry
\* that is already absent: no removal returns a not-found error.
C2_AbsentIsNoOp == pc = "report" => result # "NotFound"

----------------------------------------------------------------------------
\* C3: when the content root is a symlink, whatever the file list, the
\* removal deletes nothing but the link entry (and the descriptors): the
\* link's target and everything beneath it are unchanged; and unless a
\* descriptor's removal is refused it ends Ok with the link gone.
C3_SymlinkNonRecursion ==
    RootKind = "link"
        => /\ Deleted \subseteq (Descriptors \cup {content})
           /\ \A n \in Nodes \ (Descriptors \cup {content}) : fs[n] = fs0[n]
           /\ (Ended /\ ~RefusedDescriptor) => (result = "Ok" /\ fs[content] = None)

\* C3 witness: a symlinked root with a non-empty file list was removed, and
\* the directory it points to still holds its file.
C3_Witness ==
    /\ pc = "report"
    /\ result = "Ok"
    /\ RootKind = "link"
    /\ files # <<>>
    /\ fs[content] = None
    /\ fs[TGT] = Dir
    /\ fs[TGT \o <<"h">>] = File

----------------------------------------------------------------------------
\* The entry, joined onto some ancestor of the root (or the root itself, for
\* an empty entry), is the root.
NamesRoot(root, entry) == \E k \in 0..Len(root) : SubSeq(root, 1, k) \o entry = root

\* C4: when the content root is a regular file, the removal deletes it (and
\* only then ends Ok) only if the file list has exactly one entry and that
\* entry names the root; for every other file list it fails, with a panic
\* unless a descriptor's removal was refused first, and the root file stays.
C4_SingleFileFidelity ==
    (Ended /\ RootKind = "file")
        => LET faithful == Len(files) = 1 /\ NamesRoot(content, files[1])
           IN  /\ (result = "Ok" \/ fs[content] = None) => faithful
               /\ (faithful /\ ~RefusedDescriptor) => (result = "Ok" /\ fs[content] = None)
               /\ ~faithful => /\ result # "Ok"
                               /\ fs[content] = File
                               /\ ~RefusedDescriptor => result = "Panic"

\* C4 witness: a regular-file root was removed under a one-entry file list.
C4_Witness ==
    /\ pc = "report"
    /\ result = "Ok"
    /\ RootKind = "file"
    /\ files = << <<"show">> >>
    /\ fs[content] = None

----------------------------------------------------------------------------
\* No entry strictly beneath n is present.
EmptyBelow(f, n) == \A m \in Nodes : (m # n /\ StartsWith(m, n)) => f[m].kind = "none"

\* C5: in the multi-file removal the implied directories are taken in
\* non-increasing order of path length; a step that removes a directory
\* finds nothing left beneath it, neither a declared file nor an implied
\* directory; and the step that removes the content root comes after the
\* loop over the files and the loop over the implied directories, with every
\* declared file and every implied directory gone.
C5_Ordering ==
    [][ /\ pc' = "dirs" =>
              \A i, j \in 1..Len(dirvec') : i < j => StrLen(dirvec'[i]) >= StrLen(dirvec'[j])
        /\ \A n \in Nodes :
              (ctype = "dir" /\ fs[n].kind = "dir" /\ fs'[n].kind = "none")
                  => /\ EmptyBelow(fs, n)
                     /\ idx > Len(files)
                     /\ n = content =>
                           /\ dirvec = <<>>
                           /\ \A m \in (DeclaredFiles \cup ImpliedDirs) \ {content} :
                                 ~Present(fs, Entry(fs, m)) ]_vars

\* C5 witness: a removal of a directory root that implied two nested
\* directories ended Ok, with the root gone.
C5_Witness ==
    /\ pc = "report"
    /\ result = "Ok"
    /\ ctype = "dir"
    /\ dirset = { <<"a">>, <<"a", "b">> }
    /\ fs[content] = None

----------------------------------------------------------------------------
\* C6 (as claimed): a failure while removing one torrent, a filesystem error
\* or an integrity fault, never aborts the run: the program never stops
\* before main's loop has reached every candidate.
C6_BatchIsolation == ~(pc = "aborted" /\ remaining > 0)

----------------------------------------------------------------------------
\* C7 (as claimed): a step in which the removal of the watch or session
\* descriptor fails does not end the removal: control goes on to the
\* removal of the content.
C7_DescriptorFailureGoesOn ==
    [][ (pc \in {"watched", "session"} /\ result' \notin {"none", "Ok"}) => pc' # "report" ]_vars

\* C7 (amended): when the removal of the watch or session descriptor is
\* refused, the error is returned to delete and reported, and the content
\* removal of that torrent is not carried out: the removal never gets to the
\* branch on the content type, and everything but a watch descriptor removed
\* before a refused session descriptor is as it was.
C7_DescriptorFailureReturns ==
    (ctype # "none" /\ RefusedDescriptor)
        => /\ pc \in {"watched", "session", "report"}
           /\ pc = "report" => result = "PermissionDenied"
           /\ \A n \in Nodes \ {WATCHED} : fs[n] = fs0[n]
           /\ Deleted # {} => SESSION \in denied

\* C7 witness: the watch descriptor was removed, the session descriptor was
\* refused, and the removal of a directory root with a file list returned.
C7_Witness ==
    /\ pc = "report"
    /\ result = "PermissionDenied"
    /\ ctype = "dir"
    /\ files # <<>>
    /\ Deleted = {WATCHED}
    /\ fs[SESSION] = File

----------------------------------------------------------------------------
----------------------------------------------------------------------------
\* C9 (as claimed): in the multi-file removal every entry deleted is a
\* descriptor, a declared file, an implied directory of a declared file or
\* the content root; and an undeclared entry under the root keeps the root
\* from being removed.
C9_OnlyDeclared ==
    ctype = "dir"
        => /\ Deleted \subseteq (Descriptors \cup DeclaredFiles \cup ImpliedDirs \cup {content})
           /\ fs[content] = None =>
                 \A n \in UnderRoot : fs0[n].kind # "none" =>
                     n \in (DeclaredFiles \cup ImpliedDirs \cup {content})

----------------------------------------------------------------------------
\* C10: for the watch and the session descriptor each, a step that finds the
\* descriptor absent deletes nothing, sets no error and goes on to the next
\* step; and the content removal starts from the same state as after
\* descriptors that were present and deleted: both descriptors absent, no
\* error, everything else as it was.
C10_AbsentDescriptorNoOp ==
    [][ /\ (pc = "watched" /\ fs[WATCHED] = None)
              => (fs' = fs /\ pc' = "session" /\ result' = "none")
        /\ (pc = "session" /\ fs[SESSION] = None)
              => (fs' = fs /\ pc' = "classify" /\ result' = "none")
        /\ pc' = "classify"
              => /\ fs' = [fs0' EXCEPT ![WATCHED] = None, ![SESSION] = None]
                 /\ result' = "none" ]_vars

\* C10 witness: both descriptors were absent from the start and the removal
\* of a directory root went through to Ok.
C10_Witness ==
    /\ pc = "report"
    /\ result = "Ok"
    /\ ctype = "dir"
    /\ files # <<>>
    /\ fs0[WATCHED] = None
    /\ fs0[SESSION] = None

====
